---- MODULE Spec2Model ----
(***************************************************************************)
(* Model of src/keys.js: the promise chain of main() from capture_stdin to *)
(* execute, threaded over the global session object `model`.               *)
(*                                                                         *)
(* Text that the program parses (argv items, the command line, stdin, the  *)
(* names and values of variables, tokens) is a sequence of one-character   *)
(* strings.  Emails, passwords, organization keys and identifiers are      *)
(* opaque strings.  A JavaScript object is a function from field names;    *)
(* a field that is not set is not in the DOMAIN.                           *)
(***************************************************************************)
EXTENDS Integers, Sequences, FiniteSets, TLC

VARIABLES
    pc,            \* the stage of main()'s chain that runs next
    arg,           \* the value the chain hands to it: "model", "null", "undefined"
    model,         \* the global session object
    argv,          \* _.drop(process.argv, 2)
    penv,          \* process.env
    stdin,         \* what get_stdin() will deliver
    settingsFile,  \* content of ~/.keys/settings.json
    keychain,      \* keytar: account -> password
    sent,          \* requests handed to request(), in order
    prompted,      \* promptly prompts issued, in order
    msgs,          \* messages printed by info/error/die and the chain's catch
    stored,        \* keytar.setPassword calls issued, in order
    spawned,       \* child_process.spawn calls issued, in order
    status,        \* "running", "exited" (process.exit), "caught", "done"
    exitCode,      \* status of process.exit when status = "exited"
    pending,       \* body of the /login response awaiting the second factor
    org_key        \* the implicit global assigned in decrypt_model's token branch

vars == <<pc, arg, model, argv, penv, stdin, settingsFile, keychain, sent,
          prompted, msgs, stored, spawned, status, exitCode, pending, org_key>>

-----------------------------------------------------------------------------
(* Bounds of the model *)

MaxEnvs == 2
MaxInputLen == 4

-----------------------------------------------------------------------------
(* JavaScript objects and strings *)

Has(o, f) == f \in DOMAIN o

Put(o, f, v) == [x \in DOMAIN o \cup {f} |-> IF x = f THEN v ELSE o[x]]

Del(o, f) == [x \in DOMAIN o \ {f} |-> o[x]]

EmptyObj == [x \in {} |-> 0]

\* a text is truthy when it is set and not empty
Truthy(o, f) == Has(o, f) /\ o[f] # <<>>

\* the same for an identifier
TruthyId(o, f) == Has(o, f) /\ o[f] # ""

Upper == <<"A","B","C","D","E","F","G","H","I","J","K","L","M",
           "N","O","P","Q","R","S","T","U","V","W","X","Y","Z">>
Lower == <<"a","b","c","d","e","f","g","h","i","j","k","l","m",
           "n","o","p","q","r","s","t","u","v","w","x","y","z">>
Digits == {"0","1","2","3","4","5","6","7","8","9"}

Range(s) == {s[i] : i \in 1..Len(s)}

IsLetter(c) == c \in Range(Upper) \cup Range(Lower)

\* /\s/ on the characters the model uses
IsSpace(c) == c \in {" ", "\t", "\n", "\r"}

LowerChar(c) ==
    IF \E i \in 1..Len(Upper) : Upper[i] = c
    THEN Lower[CHOOSE i \in 1..Len(Upper) : Upper[i] = c]
    ELSE c

ToLower(s) == [i \in 1..Len(s) |-> LowerChar(s[i])]

RECURSIVE Split(_, _)
\* String.prototype.split(sep) for a one-character separator
Split(s, sep) ==
    IF \E i \in 1..Len(s) : s[i] = sep
    THEN LET i == CHOOSE j \in 1..Len(s) :
                      s[j] = sep /\ \A k \in 1..(j - 1) : s[k] # sep
         IN <<SubSeq(s, 1, i - 1)>> \o Split(SubSeq(s, i + 1, Len(s)), sep)
    ELSE <<s>>

RECURSIVE Join(_, _)
\* _.join(items, sep)
Join(items, sep) ==
    IF items = <<>> THEN <<>>
    ELSE IF Len(items) = 1 THEN items[1]
    ELSE items[1] \o sep \o Join(Tail(items), sep)

RECURSIVE Trim(_)
\* _.trim
Trim(s) ==
    IF s = <<>> THEN s
    ELSE IF IsSpace(s[1]) THEN Trim(Tail(s))
    ELSE IF IsSpace(s[Len(s)]) THEN Trim(SubSeq(s, 1, Len(s) - 1))
    ELSE s

\* the class of a character for _.words on lower-cased ASCII text:
\* letters form words, digits form words, everything else separates
WordClass(c) == IF IsLetter(c) THEN "letter"
                ELSE IF c \in Digits THEN "digit" ELSE "break"

RECURSIVE Words(_)
\* _.words: the maximal runs of letters and the maximal runs of digits
Words(s) ==
    IF s = <<>> THEN <<>>
    ELSE IF WordClass(s[1]) = "break" THEN Words(Tail(s))
    ELSE LET cls == WordClass(s[1])
             n == CHOOSE k \in 1..Len(s) :
                      /\ \A j \in 1..k : WordClass(s[j]) = cls
                      /\ (k = Len(s) \/ WordClass(s[k + 1]) # cls)
         IN <<SubSeq(s, 1, n)>> \o Words(SubSeq(s, n + 1, Len(s)))

\* String.prototype.substring(a, b): the arguments are swapped when a > b
Substring(s, a, b) ==
    LET lo == IF a <= b THEN a ELSE b
        hi == IF a <= b THEN b ELSE a
    IN SubSeq(s, lo + 1, hi)

-----------------------------------------------------------------------------
(* Hashing and encryption, as the libraries are used *)

\* new SHA3(512).update(x).digest('hex')
SHA3(x) == [sha3 |-> x]

\* sjcl encrypt(key, plaintext): json says whether the plaintext parses
SymEncrypt(k, p) == [alg |-> "sjcl", key |-> k, json |-> TRUE, plain |-> p]

\* sjcl decrypt(key, ct) throws unless the key is the one encrypted under
SymDecryptOk(k, ct) == ct.alg = "sjcl" /\ ct.key = k

\* cryptico ciphertext addressed to the key pair derived from a passphrase
AsymEncrypt(passwd, p) == [alg |-> "cryptico", key |-> passwd, plain |-> p]

\* what cryptico.decrypt leaves in .plaintext with a key pair the
\* ciphertext is not addressed to: status "failure" and no plaintext, or
\* garbage out of the AES layer
BadPlaintexts == {"undefined", "garbage"}

\* cryptico.decrypt(ct, generateRSAKey(passwd, 1024)).plaintext
AsymDecrypt(ct, passwd, bad) == IF ct.key = passwd THEN ct.plain ELSE bad

-----------------------------------------------------------------------------
(* Texts the program compares with *)

OptT == <<"-","t">>
OptToken == <<"-","-","t","o","k","e","n">>
OptV == <<"-","v">>
OptVerbose == <<"-","-","v","e","r","b","o","s","e">>
OptE == <<"-","e">>
OptEnvironment == <<"-","-","e","n","v","i","r","o","n","m","e","n","t">>
OptC == <<"-","c">>
OptClean == <<"-","-","c","l","e","a","n">>
OptI == <<"-","i">>
OptImport == <<"-","-","i","m","p","o","r","t">>
OptReset == <<"-","-","r","e","s","e","t">>
Docker == <<"d","o","c","k","e","r">>
KEYS_TOKEN == <<"K","E","Y","S","_","T","O","K","E","N">>
KEYS_ENDPOINT == <<"K","E","Y","S","_","E","N","D","P","O","I","N","T">>

\* let default_settings
default_settings ==
    [default_environment |-> "null", ask_everytime |-> FALSE, self_update |-> FALSE]

\* let model
InitModel ==
    [debug |-> FALSE,
     client |-> [version |-> "2.1.5", endpoint |-> "https://api.keys.cm"],
     args |-> <<>>,
     cmd |-> <<>>,
     settings |-> default_settings,
     creds |-> EmptyObj,
     reset |-> FALSE,
     clean |-> FALSE,
     import |-> FALSE]

-----------------------------------------------------------------------------
(* The inputs of a run *)

TokArg == <<"t","k","A">>
TokEnv == <<"t","k","E">>
NameProd == <<"p","r","o","d">>
NameStage == <<"s","t","a","g","e">>
NameDev == <<"d","e","v">>
NameQa == <<"q","a">>

\* command lines: none, a plain one, docker in three spellings
Cmds ==
    { <<>>,
      << <<"l","s">> >>,
      << Docker, <<"r","u","n">> >>,
      << <<"D","o","c","k","e","r">>, <<"p","s">> >>,
      << <<"d","o","c","k","e","r","-","c","o","m","p","o","s","e">>, <<"u","p">> >> }

\* argv: options in every combination, then the command
Argvs ==
    { t \o e \o c \o i \o r \o cmd :
        t \in { <<>>, <<OptT>>, <<OptT, TokArg>> },
        e \in { <<>>, <<OptE, NameStage>>, <<OptE, NameQa>> },
        c \in { <<>>, <<OptC>> },
        i \in { <<>>, <<OptI>> },
        r \in { <<>>, <<OptReset>> },
        cmd \in Cmds }

\* process.env: two ordinary variables, with or without the overrides
BaseEnv == (<<"A">> :> <<"p","a","r","e","n","t">>) @@ (<<"P","A","T","H">> :> <<"/","b","i","n">>)

PEnvs ==
    { BaseEnv,
      BaseEnv @@ (KEYS_TOKEN :> TokEnv) @@ (KEYS_ENDPOINT :> "https://alt.keys.cm") }

Emails == {"e1"}
Passwords == {"pw1"}

\* settings.json and the keychain left by earlier runs: a first run, and a
\* run after a stored login
Caches ==
    { [file |-> default_settings, keys |-> EmptyObj],
      [file |-> Put(default_settings, "email", "e1"), keys |-> ("e1" :> "pw1")] }

\* stdin of the pipeline runs: a plain line, a blank line, a line with a
\* quoted value and a line without '='
Inputs ==
    { <<"A","=","x","\n"," ","\n","B","=","\"","y","\"","\n","Z","\n">> }

Init ==
    /\ pc = "capture_stdin"
    /\ arg = "model"
    /\ model = InitModel
    /\ argv \in Argvs
    /\ penv \in PEnvs
    /\ stdin \in Inputs
    /\ \E c \in Caches : settingsFile = c.file /\ keychain = c.keys
    /\ sent = <<>>
    /\ prompted = <<>>
    /\ msgs = {}
    /\ stored = <<>>
    /\ spawned = <<>>
    /\ status = "running"
    /\ exitCode = 0
    /\ pending = EmptyObj
    /\ org_key = "unset"

Running(stage) == status = "running" /\ pc = stage

\* a promptly.prompt without choices
Ask(q) == [q |-> q, options |-> <<>>]

\* a throw that reaches the catch of main's chain: the message is printed
Caught(message) ==
    /\ msgs' = msgs \cup {message}
    /\ status' = "caught"
    /\ UNCHANGED exitCode

\* die(...messages): error(), then process.exit(1)
Die(messages) ==
    /\ msgs' = msgs \cup messages
    /\ status' = "exited"
    /\ exitCode' = 1

-----------------------------------------------------------------------------
(* capture_stdin, load_config *)

capture_stdin ==
    /\ Running("capture_stdin")
    /\ model' = Put(model, "input", stdin)
    /\ pc' = "load_config"
    /\ UNCHANGED <<arg, argv, penv, stdin, settingsFile, keychain, sent, prompted,
                   msgs, stored, spawned, status, exitCode, pending, org_key>>

\* _.assign(a, b)
Assign(a, b) == [x \in DOMAIN a \cup DOMAIN b |-> IF x \in DOMAIN b THEN b[x] ELSE a[x]]

\* a missing settings file is first written with the defaults, which leaves
\* the state of a file that holds the defaults
load_config ==
    /\ Running("load_config")
    /\ model' = [model EXCEPT !.settings = Assign(@, settingsFile)]
    /\ pc' = "handle_args"
    /\ UNCHANGED <<arg, argv, penv, stdin, settingsFile, keychain, sent, prompted,
                   msgs, stored, spawned, status, exitCode, pending, org_key>>

-----------------------------------------------------------------------------
(* handle_args *)

\* process.env.KEYS_TOKEN is set (and not empty)
EnvTokenSet == Truthy(penv, KEYS_TOKEN)

\* _.startsWith(item, '-')
StartsWithDash(item) == Len(item) > 0 /\ item[1] = "-"

\* one round of the _.each over the items; st carries the three locals and
\* the session object m
ArgStep(st, item) ==
    IF ~st.start_cmd
    THEN IF StartsWithDash(item)
         THEN LET st1 ==
                    IF (item = OptT \/ item = OptToken) /\ ~EnvTokenSet
                    THEN [st EXCEPT !.last_was_token = TRUE]
                    ELSE IF item = OptV \/ item = OptVerbose
                    THEN [st EXCEPT !.m.debug = TRUE]
                    ELSE IF item = OptE \/ item = OptEnvironment
                    THEN [st EXCEPT !.last_was_env = TRUE]
                    ELSE IF item = OptC \/ item = OptClean
                    THEN [st EXCEPT !.m.clean = TRUE]
                    ELSE IF item = OptI \/ item = OptImport
                    THEN [st EXCEPT !.m.import = TRUE]
                    ELSE IF item = OptReset
                    THEN [st EXCEPT !.m.reset = TRUE]
                    ELSE st
              IN [st1 EXCEPT !.m.args = Append(@, item)]
         ELSE IF st.last_was_token
         THEN [st EXCEPT !.m.args = Append(@, item), !.last_was_token = FALSE]
         ELSE IF st.last_was_env
         THEN [st EXCEPT !.m = Put(@, "env_name", item), !.last_was_env = FALSE]
         ELSE [st EXCEPT !.start_cmd = TRUE, !.m.cmd = Append(@, item)]
    ELSE [st EXCEPT !.m.cmd = Append(@, item)]

RECURSIVE ArgLoop(_, _)
ArgLoop(items, st) ==
    IF items = <<>> THEN st ELSE ArgLoop(Tail(items), ArgStep(st, items[1]))

\* the session object after the loop over the items
ParsedArgs(m, items) ==
    ArgLoop(items, [start_cmd |-> FALSE, last_was_token |-> FALSE,
                    last_was_env |-> FALSE, m |-> m]).m

IsTokenOpt(a) == a = OptT \/ a = OptToken

\* _.findIndex(model.args, -t or --token), 1-based; 0 when there is none
TokenIndex(args) ==
    IF \E i \in 1..Len(args) : IsTokenOpt(args[i])
    THEN CHOOSE i \in 1..Len(args) :
             IsTokenOpt(args[i]) /\ \A j \in 1..(i - 1) : ~IsTokenOpt(args[j])
    ELSE 0

\* TokenSource with the argument after the option ahead of KEYS_TOKEN
TokenSource_ArgFirst(args) ==
    IF TokenIndex(args) = 0 THEN "none"
    ELSE IF Len(args) > TokenIndex(args) THEN "arg"
    ELSE IF EnvTokenSet THEN "env"
    ELSE "missing"

\* the token handle_args settles on: "none" without the option, "env" from
\* KEYS_TOKEN, "arg" from the argument after the option, "missing" when the
\* option has no argument
TokenSource(args) ==
    IF TokenIndex(args) = 0 THEN "none"
    ELSE IF EnvTokenSet THEN "env"
    ELSE IF Len(args) > TokenIndex(args) THEN "arg"
    ELSE "missing"

\* the session object handle_args resolves to when --reset is not given
ArgsModel(m) ==
    LET m1 == [m EXCEPT !.cmd = Join(@, <<" ">>)]
        src == TokenSource(m1.args)
        m2 == IF src = "env" THEN Put(m1, "token", penv[KEYS_TOKEN])
              ELSE IF src = "arg" THEN Put(m1, "token", m1.args[TokenIndex(m1.args) + 1])
              ELSE m1
    IN IF Has(penv, KEYS_ENDPOINT)
       THEN [m2 EXCEPT !.client.endpoint = penv[KEYS_ENDPOINT]]
       ELSE m2

\* --reset: unstore_creds, default settings, update_config, resolve to null
handle_args_reset ==
    /\ Running("handle_args")
    /\ LET m == ParsedArgs(model, argv)
       IN /\ m.reset
          /\ keychain' = IF Has(m.settings, "email") THEN Del(keychain, m.settings.email)
                         ELSE keychain
          /\ model' = [m EXCEPT !.settings = default_settings]
          /\ settingsFile' = default_settings
    /\ msgs' = msgs \cup {"Configuration Reset"}
    /\ arg' = "null"
    /\ pc' = "load_creds"
    /\ UNCHANGED <<argv, penv, stdin, sent, prompted, stored, spawned, status,
                   exitCode, pending, org_key>>

\* -t without an argument and without KEYS_TOKEN: die
handle_args_die ==
    /\ Running("handle_args")
    /\ LET m == ParsedArgs(model, argv)
       IN /\ ~m.reset
          /\ TokenSource(m.args) = "missing"
          /\ model' = [m EXCEPT !.cmd = Join(@, <<" ">>)]
    /\ Die({"-t|--token requires token as an argument"})
    /\ UNCHANGED <<pc, arg, argv, penv, stdin, settingsFile, keychain, sent, prompted,
                   stored, spawned, pending, org_key>>

handle_args_ok ==
    /\ Running("handle_args")
    /\ LET m == ParsedArgs(model, argv)
       IN /\ ~m.reset
          /\ TokenSource(m.args) # "missing"
          /\ model' = ArgsModel(m)
    /\ msgs' = IF TokenSource(ParsedArgs(model, argv).args) = "env"
               THEN msgs \cup {"Using auth from KEYS_TOKEN environment variable"}
               ELSE msgs
    /\ pc' = "load_creds"
    /\ UNCHANGED <<arg, argv, penv, stdin, settingsFile, keychain, sent, prompted,
                   stored, spawned, status, exitCode, pending, org_key>>

handle_args == handle_args_reset \/ handle_args_die \/ handle_args_ok

-----------------------------------------------------------------------------
(* load_creds, ask_creds, host_info *)

\* a stage whose body is guarded by if (model) and that is handed no model
Skip(stage, next) ==
    /\ Running(stage)
    /\ arg # "model"
    /\ pc' = next
    /\ UNCHANGED <<arg, model, argv, penv, stdin, settingsFile, keychain, sent,
                   prompted, msgs, stored, spawned, status, exitCode, pending, org_key>>

\* model.creds after load_creds: the keychain entry of settings.email, when
\* there is no token
LoadedCreds(m) ==
    IF /\ ~Truthy(m, "token")
       /\ Has(m.settings, "email")
       /\ Has(keychain, m.settings.email)
    THEN Put(Put(m.creds, "email", m.settings.email),
             "passwd", keychain[m.settings.email])
    ELSE m.creds

load_creds ==
    \/ Skip("load_creds", "ask_creds")
    \/ /\ Running("load_creds")
       /\ arg = "model"
       /\ model' = [model EXCEPT !.creds = LoadedCreds(model)]
       /\ pc' = "ask_creds"
       /\ UNCHANGED <<arg, argv, penv, stdin, settingsFile, keychain, sent, prompted,
                      msgs, stored, spawned, status, exitCode, pending, org_key>>

\* what ask_creds does: "token" copies the token into the credential,
\* "prompt" asks for email and password, "cached" asks nothing
CredsMode(m) ==
    IF Truthy(m, "token") THEN "token"
    ELSE IF ~Has(m.creds, "email") \/ ~Has(m.creds, "passwd") THEN "prompt"
    ELSE "cached"

ask_creds_token ==
    /\ Running("ask_creds")
    /\ arg = "model"
    /\ CredsMode(model) = "token"
    /\ model' = [model EXCEPT !.creds = Put(@, "token", model.token)]
    /\ pc' = "host_info"
    /\ UNCHANGED <<arg, argv, penv, stdin, settingsFile, keychain, sent, prompted,
                   msgs, stored, spawned, status, exitCode, pending, org_key>>

\* promptly returns a non-empty email (the default when one is offered and
\* nothing is typed), so the email is written to the settings file
ask_creds_prompt ==
    /\ Running("ask_creds")
    /\ arg = "model"
    /\ CredsMode(model) = "prompt"
    /\ \E email \in Emails, passwd \in Passwords :
          LET settings == Put(model.settings, "email", email)
          IN /\ model' = [model EXCEPT
                             !.creds = Put(Put(@, "email", email), "passwd", passwd),
                             !.settings = settings]
             /\ settingsFile' = settings
    /\ prompted' = prompted \o <<Ask("Email"), Ask("Password")>>
    /\ pc' = "host_info"
    /\ UNCHANGED <<arg, argv, penv, stdin, keychain, sent, msgs, stored, spawned,
                   status, exitCode, pending, org_key>>

\* the email prompt fails (input closed): console.error, process.exit()
ask_creds_abort ==
    /\ Running("ask_creds")
    /\ arg = "model"
    /\ CredsMode(model) = "prompt"
    /\ prompted' = Append(prompted, Ask("Email"))
    /\ status' = "exited"
    /\ exitCode' = 0
    /\ UNCHANGED <<pc, arg, model, argv, penv, stdin, settingsFile, keychain, sent,
                   msgs, stored, spawned, pending, org_key>>

ask_creds_cached ==
    /\ Running("ask_creds")
    /\ arg = "model"
    /\ CredsMode(model) = "cached"
    /\ pc' = "host_info"
    /\ UNCHANGED <<arg, model, argv, penv, stdin, settingsFile, keychain, sent,
                   prompted, msgs, stored, spawned, status, exitCode, pending, org_key>>

ask_creds ==
    \/ Skip("ask_creds", "host_info")
    \/ ask_creds_token
    \/ ask_creds_prompt
    \/ ask_creds_abort
    \/ ask_creds_cached

\* model.client after host_info
HostClient(m) ==
    Put(Put(Put(m.client, "type", "default"),
            "uname_hash", SHA3("uname -a")),
        "cmd_hash", SHA3(m.cmd))

host_info ==
    \/ Skip("host_info", "login")
    \/ /\ Running("host_info")
       /\ arg = "model"
       /\ model' = [model EXCEPT !.client = HostClient(model)]
       /\ pc' = "login"
       /\ UNCHANGED <<arg, argv, penv, stdin, settingsFile, keychain, sent, prompted,
                      msgs, stored, spawned, status, exitCode, pending, org_key>>

-----------------------------------------------------------------------------
(* What the backend may answer *)

\* a variable of a variable set: {value, updated, by} under its name
Var(n, v, by) == [name |-> n, value |-> v, updated |-> "t0", by |-> by]

EnvIds == <<"a", "b", "c", "d">>
EnvNames == <<NameProd, NameStage, NameDev, <<"x">>>>

\* a variable set is the sequence of its variables in the order of its keys
EnvVars(i) ==
    IF i = 1 THEN <<Var(<<"A">>, <<"1">>, "u0"), Var(<<"B">>, <<"2">>, "u0")>>
    ELSE <<Var(<<"B">>, <<"3">>, "u0")>>

\* the ciphertext of environment i: under the organization key, under another
\* key, or of a plaintext that is no JSON
EnvCt(i, kind) ==
    IF kind = "good" THEN SymEncrypt("K1", EnvVars(i))
    ELSE IF kind = "badkey" THEN SymEncrypt("K2", EnvVars(i))
    ELSE [SymEncrypt("K1", <<>>) EXCEPT !.json = FALSE]

CtKinds == {"good", "badkey", "nojson"}

\* org.envs is an object keyed by environment id; the model keeps it as the
\* sequence of its values in key order
EnvListsOf(n) ==
    { [i \in 1..n |-> [id |-> EnvIds[i], name |-> EnvNames[i], vars_ct |-> EnvCt(i, k[i])]] :
        k \in { f \in [1..n -> CtKinds] :
                  Cardinality({i \in 1..n : f[i] # "good"}) <= 1 } }

\* the environment lists of the model: at most MaxEnvs environments, at most
\* one damaged ciphertext
EnvLists == UNION { EnvListsOf(n) : n \in 0..MaxEnvs }

Org(envs) == [id |-> "o1", name |-> "Org", envs |-> envs]

\* key material of a password login: the organization key addressed to the
\* key pair of the password, alone or with a second organization's key,
\* each possibly addressed to another key pair
PasswordKeys(passwd) ==
    { ("o1" :> AsymEncrypt(passwd, "K1")),
      ("o1" :> AsymEncrypt("pwX", "K1")),
      ("o1" :> AsymEncrypt(passwd, "K1")) @@ ("o2" :> AsymEncrypt(passwd, "K8")),
      ("o1" :> AsymEncrypt(passwd, "K1")) @@ ("o2" :> AsymEncrypt("pwX", "K8")) }

PasswordBodies(passwd) ==
    { [user |-> [id |-> "u1", org_keys_ct |-> k], org |-> Org(envs)] :
        k \in PasswordKeys(passwd), envs \in EnvLists }

\* key material of a token login: the organization key under the token or
\* under another token, and a user record with or without org_key
TokenBodies(token) ==
    { [user |-> u, org |-> Org(envs), org_key_ct |-> SymEncrypt(t, "K1")] :
        u \in { [id |-> "u1"], [id |-> "u1", org_key |-> "K1"] },
        t \in { token, <<"t","k","X">> },
        envs \in EnvLists }

\* the bodies the backend may accept a login with
Bodies(m) ==
    IF Has(m.creds, "token") THEN TokenBodies(m.creds.token)
    ELSE PasswordBodies(m.creds.passwd)

\* a /login response that asks for the second factor
TwoFaBody == ("2fa" :> TRUE) @@ ("user" :> "u1")

-----------------------------------------------------------------------------
(* login *)

\* the fields of an object that _.merge merges instead of replacing
ObjFields == {"client", "settings", "creds", "user", "org"}

\* _.merge(model, body): fields of the body replace those of the model, and
\* the fields of an object present on both sides are merged
Merge(m, body) ==
    [x \in DOMAIN m \cup DOMAIN body |->
        IF x \notin DOMAIN body THEN m[x]
        ELSE IF x \in DOMAIN m /\ x \in ObjFields THEN Assign(m[x], body[x])
        ELSE body[x]]

\* LoginBody with the credential itself next to its hash
LoginBody_Raw(m) ==
    LET r0 == ("client" :> m.client)
        r1 == IF Has(m.creds, "email") THEN Put(r0, "email", m.creds.email) ELSE r0
        r2 == IF Has(m.creds, "passwd")
              THEN Put(Put(r1, "passwd", m.creds.passwd),
                       "passwd_hash", SHA3(m.creds.passwd))
              ELSE r1
    IN IF Has(m.creds, "token")
       THEN Put(Put(r2, "token", m.creds.token), "token_hash", SHA3(m.creds.token))
       ELSE r2

\* the body of the /login request
LoginBody(m) ==
    LET r0 == ("client" :> m.client)
        r1 == IF Has(m.creds, "email") THEN Put(r0, "email", m.creds.email) ELSE r0
        r2 == IF Has(m.creds, "passwd")
              THEN Put(r1, "passwd_hash", SHA3(m.creds.passwd)) ELSE r1
    IN IF Has(m.creds, "token")
       THEN Put(r2, "token_hash", SHA3(m.creds.token)) ELSE r2

\* request(options) on /login: jar: true
LoginRequest(m, outcome) ==
    [uri |-> [endpoint |-> m.client.endpoint, path |-> "/login"],
     jar |-> TRUE, body |-> LoginBody(m), outcome |-> outcome]

\* TotpRequest that sends the code alone
TotpRequest_CodeOnly(m, body, code, outcome) ==
    [uri |-> [endpoint |-> m.client.endpoint, path |-> "/totp/login"],
     jar |-> FALSE, body |-> [code |-> code], outcome |-> outcome]

\* request.post on /totp/login: {user: body['user'], code: code}
TotpRequest(m, body, code, outcome) ==
    [uri |-> [endpoint |-> m.client.endpoint, path |-> "/totp/login"],
     jar |-> FALSE, body |-> [user |-> body["user"], code |-> code],
     outcome |-> outcome]

\* LoginFailure without the distinction of the token session
LoginFailure_OneMessage(m) == "AuthFailed Bad Username/Password"

\* the message of the catch of the /login request
LoginFailure(m) ==
    IF Truthy(m, "token") THEN "AuthFailed Invalid Token"
    ELSE "AuthFailed Bad Username/Password"

\* store_creds: keytar.setPassword('keys.cm', creds.email, creds.passwd)
StoreCall(creds) ==
    [account |-> IF Has(creds, "email") THEN creds.email ELSE "undefined",
     password |-> IF Has(creds, "passwd") THEN creds.passwd ELSE "undefined"]

\* whether keytar.setPassword throws: never with an account and a password;
\* without them keytar either refuses the call by throwing or takes it
StoreThrows(creds) ==
    IF Has(creds, "email") /\ Has(creds, "passwd") THEN {FALSE} ELSE {FALSE, TRUE}

\* the keychain after an accepted keytar.setPassword
StoredKeychain(creds) ==
    IF Has(creds, "email") /\ Has(creds, "passwd")
    THEN Put(keychain, creds.email, creds.passwd)
    ELSE keychain

\* the then-branch of a login request: AuthSuccess, _.merge, store_creds; a
\* throw of store_creds lands in the catch of the request, which dies
Accepted(body, failure) ==
    LET m == Merge(model, body)
    IN /\ model' = m
       /\ \E thrown \in StoreThrows(m.creds) :
             IF thrown
             THEN /\ Die({"AuthSuccess", failure})
                  /\ UNCHANGED <<pc, stored, keychain>>
             ELSE /\ msgs' = msgs \cup {"AuthSuccess"}
                  /\ stored' = Append(stored, StoreCall(m.creds))
                  /\ keychain' = StoredKeychain(m.creds)
                  /\ pc' = "decrypt_model"
                  /\ UNCHANGED <<status, exitCode>>

\* the request fails: the backend rejects it or the transport fails
login_fail ==
    /\ Running("login")
    /\ arg = "model"
    /\ \E outcome \in {"rejected", "network"} :
          sent' = Append(sent, LoginRequest(model, outcome))
    /\ Die({LoginFailure(model)})
    /\ UNCHANGED <<pc, arg, model, argv, penv, stdin, settingsFile, keychain,
                   prompted, stored, spawned, pending, org_key>>

\* the response asks for the second factor
login_2fa ==
    /\ Running("login")
    /\ arg = "model"
    /\ sent' = Append(sent, LoginRequest(model, "accepted"))
    /\ pending' = TwoFaBody
    /\ pc' = "totp"
    /\ UNCHANGED <<arg, model, argv, penv, stdin, settingsFile, keychain, prompted,
                   msgs, stored, spawned, status, exitCode, org_key>>

\* the /login request is accepted with one of the given bodies
LoginOk(bodies) ==
    /\ Running("login")
    /\ arg = "model"
    /\ sent' = Append(sent, LoginRequest(model, "accepted"))
    /\ \E body \in bodies : Accepted(body, LoginFailure(model))
    /\ UNCHANGED <<arg, argv, penv, stdin, settingsFile, prompted, spawned,
                   pending, org_key>>

login_ok == LoginOk(Bodies(model))

Codes == {"123456"}

\* the 2FA prompt, then the /totp/login request fails
totp_fail ==
    /\ Running("totp")
    /\ prompted' = Append(prompted, Ask("2FA Code"))
    /\ \E code \in Codes, outcome \in {"rejected", "network"} :
          sent' = Append(sent, TotpRequest(model, pending, code, outcome))
    /\ Die({"AuthFailed Invalid 2FA Code"})
    /\ UNCHANGED <<pc, arg, model, argv, penv, stdin, settingsFile, keychain,
                   stored, spawned, pending, org_key>>

\* the 2FA prompt, then /totp/login is accepted with one of the given bodies
TotpOk(bodies) ==
    /\ Running("totp")
    /\ prompted' = Append(prompted, Ask("2FA Code"))
    /\ \E code \in Codes :
          sent' = Append(sent, TotpRequest(model, pending, code, "accepted"))
    /\ \E body \in bodies : Accepted(body, "AuthFailed Invalid 2FA Code")
    /\ UNCHANGED <<arg, argv, penv, stdin, settingsFile, spawned, pending, org_key>>

totp_ok == TotpOk(Bodies(model))

login ==
    \/ Skip("login", "decrypt_model")
    \/ login_fail
    \/ login_2fa
    \/ login_ok
    \/ totp_fail
    \/ totp_ok

-----------------------------------------------------------------------------
(* decrypt_model *)

\* the ciphertext of the organization key decrypt_model picks
OrgKeyCt(m) ==
    IF Has(m, "org_key_ct") THEN m.org_key_ct ELSE m.user.org_keys_ct[m.org.id]

\* the key the environments are decrypted with: model.user.org_key
EnvKey(m) == IF Has(m.user, "org_key") THEN m.user.org_key ELSE "undefined"

\* JSON.parse(crypto.decrypt(key, ct)) returns
EnvDecrypts(key, ct) == SymDecryptOk(key, ct) /\ ct.json

\* the password branch: model.user.org_key and model.user.org_keys
PasswordKeysModel(m, bad) ==
    LET passwd == m.creds.passwd
        u1 == Put(m.user, "org_key", AsymDecrypt(OrgKeyCt(m), passwd, bad))
        u2 == IF Has(u1, "org_keys_ct")
              THEN Put(u1, "org_keys",
                       [o \in DOMAIN u1.org_keys_ct |->
                           AsymDecrypt(u1.org_keys_ct[o], passwd, bad)])
              ELSE u1
    IN [m EXCEPT !.user = u2]

\* the first environment whose decryption or parse throws; 0 when none does
FirstBadEnv(m) ==
    LET envs == m.org.envs
        Bad(i) == ~EnvDecrypts(EnvKey(m), envs[i].vars_ct)
    IN IF \E i \in 1..Len(envs) : Bad(i)
       THEN CHOOSE i \in 1..Len(envs) : Bad(i) /\ \A j \in 1..(i - 1) : ~Bad(j)
       ELSE 0

\* the _.each over model.org.envs, up to and without environment `stop`
\* (all of them when stop = 0); the selection of a token session is made
\* before the decryption of the first environment
EnvsModel(m, stop) ==
    LET envs == m.org.envs
        last == IF stop = 0 THEN Len(envs) ELSE stop - 1
        m1 == IF Len(envs) > 0 /\ Truthy(m, "token") /\ ~TruthyId(m, "selected")
              THEN Put(m, "selected", envs[1].id) ELSE m
    IN [m1 EXCEPT !.org.envs =
           [i \in 1..Len(envs) |->
               IF i <= last THEN Put(envs[i], "vars", envs[i].vars_ct.plain)
               ELSE envs[i]]]

\* the token branch: sjcl decryption of the key ciphertext throws
decrypt_model_token_throw ==
    /\ Running("decrypt_model")
    /\ arg = "model"
    /\ Has(model.creds, "token")
    /\ ~SymDecryptOk(model.creds.token, OrgKeyCt(model))
    /\ Caught("sjcl decrypt: org_key_ct")
    /\ UNCHANGED <<pc, arg, model, argv, penv, stdin, settingsFile, keychain, sent,
                   prompted, stored, spawned, pending, org_key>>

\* the token branch: the key goes to the global org_key, then the environments
decrypt_model_token ==
    /\ Running("decrypt_model")
    /\ arg = "model"
    /\ Has(model.creds, "token")
    /\ SymDecryptOk(model.creds.token, OrgKeyCt(model))
    /\ org_key' = OrgKeyCt(model).plain
    /\ LET stop == FirstBadEnv(model)
       IN /\ model' = EnvsModel(model, stop)
          /\ IF stop = 0
             THEN pc' = "ask_env" /\ UNCHANGED <<msgs, status, exitCode>>
             ELSE Caught("sjcl decrypt: vars_ct") /\ UNCHANGED pc
    /\ UNCHANGED <<arg, argv, penv, stdin, settingsFile, keychain, sent, prompted,
                   stored, spawned, pending>>

\* the password branch: cryptico never throws, then the environments
decrypt_model_password ==
    /\ Running("decrypt_model")
    /\ arg = "model"
    /\ ~Has(model.creds, "token")
    /\ \E bad \in BadPlaintexts :
          LET m == PasswordKeysModel(model, bad)
              stop == FirstBadEnv(m)
          IN /\ model' = EnvsModel(m, stop)
             /\ IF stop = 0
                THEN pc' = "ask_env" /\ UNCHANGED <<msgs, status, exitCode>>
                ELSE Caught("sjcl decrypt: vars_ct") /\ UNCHANGED pc
    /\ UNCHANGED <<arg, argv, penv, stdin, settingsFile, keychain, sent, prompted,
                   stored, spawned, pending, org_key>>

decrypt_model ==
    \/ Skip("decrypt_model", "ask_env")
    \/ decrypt_model_token_throw
    \/ decrypt_model_token
    \/ decrypt_model_password

-----------------------------------------------------------------------------
(* ask_env *)

\* _.find(model.org.envs, {name: name}): its position, 0 when there is none
\* FindByName that takes the first environment whatever its name
FindByName_First(envs, name) == IF Len(envs) > 0 THEN 1 ELSE 0

FindByName(envs, name) ==
    IF \E i \in 1..Len(envs) : envs[i].name = name
    THEN CHOOSE i \in 1..Len(envs) :
             envs[i].name = name /\ \A j \in 1..(i - 1) : envs[j].name # name
    ELSE 0

\* model.org.envs[id]: its position, 0 when there is none
FindById(envs, id) ==
    IF \E i \in 1..Len(envs) : envs[i].id = id
    THEN CHOOSE i \in 1..Len(envs) : envs[i].id = id
    ELSE 0

\* Preselected that marks nothing when the name is not found
Preselected_NoCreate(m) ==
    LET envs == m.org.envs
    IN IF Truthy(m, "token")
       THEN IF Len(envs) > 0 THEN Put(m, "selected", envs[1].id) ELSE Del(m, "selected")
       ELSE IF Truthy(m, "env_name") /\ FindByName(envs, m.env_name) # 0
       THEN Put(m, "selected", envs[FindByName(envs, m.env_name)].id)
       ELSE m

\* Preselected with the lookup by name ahead of the token default
Preselected_NameFirst(m) ==
    LET envs == m.org.envs
    IN IF Truthy(m, "env_name")
       THEN IF FindByName(envs, m.env_name) # 0
            THEN Put(m, "selected", envs[FindByName(envs, m.env_name)].id)
            ELSE IF m.import THEN Put(m, "create_env", TRUE)
            ELSE m
       ELSE IF Truthy(m, "token")
       THEN IF Len(envs) > 0 THEN Put(m, "selected", envs[1].id) ELSE Del(m, "selected")
       ELSE m

\* the first if of ask_env: the token default, or the lookup by name
Preselected(m) ==
    LET envs == m.org.envs
    IN IF Truthy(m, "token")
       THEN IF Len(envs) > 0 THEN Put(m, "selected", envs[1].id) ELSE Del(m, "selected")
       ELSE IF Truthy(m, "env_name")
       THEN IF FindByName(envs, m.env_name) # 0
            THEN Put(m, "selected", envs[FindByName(envs, m.env_name)].id)
            ELSE IF m.import THEN Put(m, "create_env", TRUE)
            ELSE m
       ELSE m

\* the name lookup found nothing and nothing is to be imported
NotFound(m) ==
    /\ ~Truthy(m, "token")
    /\ Truthy(m, "env_name")
    /\ FindByName(m.org.envs, m.env_name) = 0
    /\ ~m.import

NotFoundMsgs(m) == IF NotFound(m) THEN {"NotFound"} ELSE {}

\* EnvMode that offers the choice to an import without a name
EnvMode_ImportChooses(m) ==
    IF TruthyId(Preselected(m), "selected") THEN "selected"
    ELSE IF Has(Preselected(m), "create_env") THEN "create"
    ELSE "choose"

\* EnvMode with a name that was not found ending the selector without a choice
EnvMode_NoChoice(m) ==
    IF TruthyId(Preselected(m), "selected") THEN "selected"
    ELSE IF ~m.import /\ ~NotFound(m) THEN "choose"
    ELSE IF Has(Preselected(m), "create_env") THEN "create"
    ELSE "no_name"

\* the second if of ask_env: "selected", "choose", "create" or "no_name"
EnvMode(m) ==
    IF TruthyId(Preselected(m), "selected") THEN "selected"
    ELSE IF ~m.import THEN "choose"
    ELSE IF Has(Preselected(m), "create_env") THEN "create"
    ELSE "no_name"

\* the numbered choice: one option per environment, in the order of org.envs
Choice(m) ==
    [q |-> "Choose the environment to load",
     options |-> [i \in 1..Len(m.org.envs) |-> m.org.envs[i].name]]

\* ask_env has no if (model): handed null, reading model.token throws
ask_env_null ==
    /\ Running("ask_env")
    /\ arg # "model"
    /\ Caught("TypeError: Cannot read property 'token' of null")
    /\ UNCHANGED <<pc, arg, model, argv, penv, stdin, settingsFile, keychain, sent,
                   prompted, stored, spawned, pending, org_key>>

ask_env_selected ==
    /\ Running("ask_env")
    /\ arg = "model"
    /\ EnvMode(model) = "selected"
    /\ model' = Preselected(model)
    /\ msgs' = msgs \cup NotFoundMsgs(model)
                    \cup (IF model.import THEN {} ELSE {"Loading environment"})
    /\ pc' = "import_env"
    /\ UNCHANGED <<arg, argv, penv, stdin, settingsFile, keychain, sent, prompted,
                   stored, spawned, status, exitCode, pending, org_key>>

\* ValidIndex that takes the last number of the list for out of range
ValidIndex_Strict(m, env_index) == env_index > 0 /\ Len(m.org.envs) > env_index

\* env_index > 0 && envs.length >= env_index
ValidIndex(m, env_index) == env_index > 0 /\ Len(m.org.envs) >= env_index

\* the interactive choice: a valid index selects, anything else prints
\* 'invalid index' and resolves to undefined; the answer given is kept with
\* the prompt
ask_env_choose ==
    /\ Running("ask_env")
    /\ arg = "model"
    /\ EnvMode(model) = "choose"
    /\ \E env_index \in 0..(Len(model.org.envs) + 1) :
          /\ prompted' = Append(prompted, Put(Choice(model), "answer", env_index))
          /\ IF ValidIndex(model, env_index)
             THEN /\ model' = Put(Preselected(model), "selected",
                                  model.org.envs[env_index].id)
                  /\ msgs' = msgs \cup NotFoundMsgs(model)
                  /\ arg' = arg
             ELSE /\ model' = Preselected(model)
                  /\ msgs' = msgs \cup NotFoundMsgs(model) \cup {"invalid index"}
                  /\ arg' = "undefined"
    /\ pc' = "import_env"
    /\ UNCHANGED <<argv, penv, stdin, settingsFile, keychain, sent, stored, spawned,
                   status, exitCode, pending, org_key>>

ask_env_create ==
    /\ Running("ask_env")
    /\ arg = "model"
    /\ EnvMode(model) = "create"
    /\ model' = Preselected(model)
    /\ pc' = "import_env"
    /\ UNCHANGED <<arg, argv, penv, stdin, settingsFile, keychain, sent, prompted,
                   msgs, stored, spawned, status, exitCode, pending, org_key>>

ask_env_no_name ==
    /\ Running("ask_env")
    /\ arg = "model"
    /\ EnvMode(model) = "no_name"
    /\ model' = Preselected(model)
    /\ msgs' = msgs \cup {"Use -e name with -i to specify an environment to create/update"}
    /\ arg' = "null"
    /\ pc' = "import_env"
    /\ UNCHANGED <<argv, penv, stdin, settingsFile, keychain, sent, prompted,
                   stored, spawned, status, exitCode, pending, org_key>>

ask_env ==
    \/ ask_env_null
    \/ ask_env_selected
    \/ ask_env_choose
    \/ ask_env_create
    \/ ask_env_no_name

-----------------------------------------------------------------------------
(* import_env *)

Quotes == {"'", "\""}

\* line.replace(/\s/g, '').length
NonBlank(line) == \E i \in 1..Len(line) : ~IsSpace(line[i])

\* the value of a line: one pair of equal quotes at both ends is cut off
Unquote(val) ==
    IF Len(val) > 0 /\ val[1] \in Quotes /\ val[Len(val)] = val[1]
    THEN Substring(val, 1, Len(val) - 1)
    ELSE val

\* the property name whose assignment sets an object's prototype
Proto == <<"_", "_", "p", "r", "o", "t", "o", "_", "_">>

\* import_vars[key] = v, v an object: a key already there keeps its place;
\* the key __proto__ makes v the prototype of import_vars and adds no
\* property, so JSON.stringify and _.size never see it
SetVar(vs, v) ==
    IF v.name = Proto THEN vs
    ELSE IF \E i \in 1..Len(vs) : vs[i].name = v.name
    THEN [i \in 1..Len(vs) |-> IF vs[i].name = v.name THEN v ELSE vs[i]]
    ELSE Append(vs, v)

\* a line that is parsed: not blank and split in two by '='
GoodLine(line) == NonBlank(line) /\ Len(Split(line, "=")) = 2

\* a line that is skipped with the 'bad format' message
BadLine(line) == NonBlank(line) /\ Len(Split(line, "=")) # 2

\* one round of the _.each over the lines
ImportLine(vs, line, by) ==
    IF GoodLine(line)
    THEN LET parts == Split(line, "=")
         IN SetVar(vs, [name |-> parts[1], value |-> Unquote(parts[2]),
                        updated |-> "now", by |-> by])
    ELSE vs

RECURSIVE ImportLines(_, _, _)
ImportLines(vs, lines, by) ==
    IF lines = <<>> THEN vs
    ELSE ImportLines(ImportLine(vs, lines[1], by), Tail(lines), by)

\* import_vars: empty, then the lines of model.input when there is an input
ImportVars(m) ==
    IF Truthy(m, "input")
    THEN ImportLines(<<>>, Split(m.input, "\n"), m.user.id)
    ELSE <<>>

ImportMsgs(m) ==
    IF Truthy(m, "input") /\ \E i \in 1..Len(Split(m.input, "\n")) :
                                  BadLine(Split(m.input, "\n")[i])
    THEN {"Skipping line bad format"}
    ELSE {}

\* uuid()
NewId == "uuid-1"

\* the session object when the request is built: a created environment gets
\* a new id as the selection
ImportModel(m) == IF Has(m, "create_env") THEN Put(m, "selected", NewId) ELSE m

\* UpdateBody that sends the name with an update as well
UpdateBody_NameAlways(m) ==
    LET ct == [vars_ct |-> SymEncrypt(m.user.org_key, ImportVars(m))]
        id == IF Has(m, "create_env") THEN NewId ELSE m.selected
    IN IF Has(m, "env_name")
       THEN Put(Put(ct, "id", id), "name", m.env_name)
       ELSE Put(ct, "id", id)

\* the body of the /env/update request
UpdateBody(m) ==
    LET ct == [vars_ct |-> SymEncrypt(m.user.org_key, ImportVars(m))]
    IN IF Has(m, "create_env")
       THEN Put(Put(ct, "id", NewId), "name", m.env_name)
       ELSE IF Has(m, "selected") THEN Put(ct, "id", m.selected) ELSE ct

UpdateRequest(m, outcome) ==
    [uri |-> [endpoint |-> m.client.endpoint, path |-> "/env/update"],
     jar |-> TRUE, body |-> UpdateBody(m), outcome |-> outcome]

\* sjcl encrypt throws on a key that is undefined
CanEncrypt(m) == Has(m.user, "org_key") /\ m.user.org_key # "undefined"

\* what is printed once the request is answered: the count on success when
\* env_name is set (reading .bold of an undefined env_name throws into the
\* catch, which prints the error), the error otherwise
UploadMsgs(m, outcome) ==
    IF outcome = "accepted" /\ Has(m, "env_name")
    THEN {(IF Has(m, "create_env") THEN "Created" ELSE "Updated")
             \o " with " \o ToString(Len(ImportVars(m))) \o " variables from stdin"}
    ELSE {"error"}

import_env_pass ==
    /\ Running("import_env")
    /\ ~(arg = "model" /\ model.import)
    /\ pc' = "update_config"
    /\ UNCHANGED <<arg, model, argv, penv, stdin, settingsFile, keychain, sent,
                   prompted, msgs, stored, spawned, status, exitCode, pending, org_key>>

import_env_throw ==
    /\ Running("import_env")
    /\ arg = "model" /\ model.import
    /\ ~CanEncrypt(model)
    /\ msgs' = msgs \cup ImportMsgs(model) \cup {"sjcl encrypt"}
    /\ status' = "caught"
    /\ UNCHANGED <<pc, arg, model, argv, penv, stdin, settingsFile, keychain, sent,
                   prompted, stored, spawned, exitCode, pending, org_key>>

import_env_upload ==
    /\ Running("import_env")
    /\ arg = "model" /\ model.import
    /\ CanEncrypt(model)
    /\ model' = ImportModel(model)
    /\ \E outcome \in {"accepted", "rejected", "network"} :
          /\ sent' = Append(sent, UpdateRequest(model, outcome))
          /\ msgs' = msgs \cup ImportMsgs(model) \cup UploadMsgs(model, outcome)
    /\ arg' = "null"
    /\ pc' = "update_config"
    /\ UNCHANGED <<argv, penv, stdin, settingsFile, keychain, prompted, stored,
                   spawned, status, exitCode, pending, org_key>>

import_env == import_env_pass \/ import_env_throw \/ import_env_upload

-----------------------------------------------------------------------------
(* update_config, specials, execute *)

update_config ==
    \/ Skip("update_config", "specials")
    \/ /\ Running("update_config")
       /\ arg = "model"
       /\ settingsFile' = model.settings
       /\ pc' = "specials"
       /\ UNCHANGED <<arg, model, argv, penv, stdin, keychain, sent, prompted, msgs,
                      stored, spawned, status, exitCode, pending, org_key>>

\* model.org.envs[model.selected].vars
SelectedVars(m) == m.org.envs[FindById(m.org.envs, m.selected)].vars

\* the first word of the lower-cased command is docker
IsDocker(cmd) ==
    LET parts == Words(ToLower(cmd))
    IN Len(parts) > 0 /\ parts[1] = Docker

\* DockerFlags for the first variable only
DockerFlags_FirstOnly(vs) ==
    IF vs = <<>> THEN <<>> ELSE <<" ", "-", "e", " ">> \o vs[1].name

RECURSIVE DockerFlags(_)
\* ' -e NAME' for each variable, in the order of the variable set
DockerFlags(vs) ==
    IF vs = <<>> THEN <<>>
    ELSE <<" ", "-", "e", " ">> \o vs[1].name \o DockerFlags(Tail(vs))

\* model.cmd after specials
SpecialCmd(m) ==
    IF IsDocker(m.cmd) THEN m.cmd \o DockerFlags(SelectedVars(m)) ELSE m.cmd

specials ==
    \/ Skip("specials", "execute")
    \/ /\ Running("specials")
       /\ arg = "model"
       /\ model' = [model EXCEPT !.cmd = SpecialCmd(model)]
       /\ pc' = "execute"
       /\ UNCHANGED <<arg, argv, penv, stdin, settingsFile, keychain, sent, prompted,
                      msgs, stored, spawned, status, exitCode, pending, org_key>>

RECURSIVE Overlay(_, _)
\* _.each(vars, (v, k) => env[k] = v.value)
Overlay(env, vs) ==
    IF vs = <<>> THEN env
    ELSE Overlay(Put(env, vs[1].name, vs[1].value), Tail(vs))

\* ChildEnv that inherits the parent's environment in clean mode too
ChildEnv_Inherit(m) == Overlay(penv, SelectedVars(m))

\* the environment handed to spawn
ChildEnv(m) ==
    Overlay(IF m.clean THEN EmptyObj ELSE penv, SelectedVars(m))

\* the options of spawn
SpawnCall(m) == [cmd |-> m.cmd, shell |-> ~m.clean, env |-> ChildEnv(m)]

execute_skip ==
    /\ Running("execute")
    /\ arg # "model"
    /\ status' = "done"
    /\ UNCHANGED <<pc, arg, model, argv, penv, stdin, settingsFile, keychain, sent,
                   prompted, msgs, stored, spawned, exitCode, pending, org_key>>

execute_usage ==
    /\ Running("execute")
    /\ arg = "model"
    /\ Len(Trim(model.cmd)) < 1
    /\ msgs' = msgs \cup {"No command was provided, exiting."}
    /\ status' = "done"
    /\ UNCHANGED <<pc, arg, model, argv, penv, stdin, settingsFile, keychain, sent,
                   prompted, stored, spawned, exitCode, pending, org_key>>

execute_spawn ==
    /\ Running("execute")
    /\ arg = "model"
    /\ Len(Trim(model.cmd)) >= 1
    /\ msgs' = msgs \cup {"Executing"}
    /\ spawned' = Append(spawned, SpawnCall(model))
    /\ status' = "done"
    /\ UNCHANGED <<pc, arg, model, argv, penv, stdin, settingsFile, keychain, sent,
                   prompted, stored, exitCode, pending, org_key>>

execute == execute_skip \/ execute_usage \/ execute_spawn

-----------------------------------------------------------------------------

Next ==
    \/ capture_stdin
    \/ load_config
    \/ handle_args
    \/ load_creds
    \/ ask_creds
    \/ host_info
    \/ login
    \/ decrypt_model
    \/ ask_env
    \/ import_env
    \/ update_config
    \/ specials
    \/ execute

Spec == Init /\ [][Next]_vars

-----------------------------------------------------------------------------
(* The importer on every short input text *)

ImportPieces == { <<"A">>, <<"=">>, <<"'">>, <<"\"">>, <<" ">>, <<"\n">>, Proto }

RECURSIVE Flat(_)
Flat(pieces) ==
    IF pieces = <<>> THEN <<>> ELSE Head(pieces) \o Flat(Tail(pieces))

\* the texts made of at most MaxInputLen pieces
ImportTexts ==
    { Flat(ps) : ps \in UNION { [1..n -> ImportPieces] : n \in 0..MaxInputLen } }

\* the login response of the import runs: two environments, prod and stage
ImportBody ==
    [user |-> [id |-> "u1", org_keys_ct |-> ("o1" :> AsymEncrypt("pw1", "K1"))],
     org |-> Org([i \in 1..2 |-> [id |-> EnvIds[i], name |-> EnvNames[i],
                                  vars_ct |-> EnvCt(i, "good")]])]

\* keys -e stage -i and keys -e qa -i with a stored login, at import_env:
\* the session object is the initial one taken through capture_stdin,
\* load_config, handle_args, load_creds, host_info, login, decrypt_model and
\* ask_env
InitImport ==
    /\ stdin \in ImportTexts
    /\ argv \in { <<OptE, NameStage, OptI>>, <<OptE, NameQa, OptI>> }
    /\ penv = BaseEnv
    /\ settingsFile = Put(default_settings, "email", "e1")
    /\ keychain = ("e1" :> "pw1")
    /\ \E m1 \in { [InitModel EXCEPT !.settings = Assign(@, settingsFile)] } :
       \E m2 \in { ArgsModel(ParsedArgs(Put(m1, "input", stdin), argv)) } :
       \E m3 \in { [m2 EXCEPT !.creds = LoadedCreds(m2)] } :
       \E m4 \in { [m3 EXCEPT !.client = HostClient(m3)] } :
       \E m5 \in { Merge(m4, ImportBody) } :
       \E m6 \in { PasswordKeysModel(m5, "undefined") } :
       \E m7 \in { EnvsModel(m6, 0) } :
          /\ model = Preselected(m7)
          /\ sent = <<LoginRequest(m4, "accepted")>>
          /\ stored = <<StoreCall(m4.creds)>>
    /\ pc = "import_env"
    /\ arg = "model"
    /\ prompted = <<>>
    /\ msgs = {"AuthSuccess"}
    /\ spawned = <<>>
    /\ status = "running"
    /\ exitCode = 0
    /\ pending = EmptyObj
    /\ org_key = "unset"

NextImport == import_env_upload

SpecImport == InitImport /\ [][NextImport]_vars

-----------------------------------------------------------------------------
(* login on any response body *)

\* fields of the session object that a response body may name as well
SessionFields ==
    { EmptyObj,
      ("cmd" :> <<"r", "m">>),
      ("clean" :> TRUE),
      ("import" :> TRUE),
      ("env_name" :> NameDev),
      ("token" :> <<"t", "k", "X">>),
      ("creds" :> ("passwd" :> "pwX")),
      ("selected" :> "b"),
      ("client" :> ("endpoint" :> "https://alt.keys.cm")) }

\* the JSON objects the backend may answer a login with: a body with one
\* environment, alone or with one more field
AnyBodies(m) ==
    { Assign(b, x) : b \in { c \in Bodies(m) : Len(c.org.envs) = 1 },
                     x \in SessionFields }

\* argv of the login runs: with or without a token, no reset
LoginArgvs ==
    { t \o e \o c \o i \o cmd :
        t \in { <<>>, <<OptT, TokArg>> },
        e \in { <<>>, <<OptE, NameStage>>, <<OptE, NameQa>> },
        c \in { <<>>, <<OptC>> },
        i \in { <<>>, <<OptI>> },
        cmd \in Cmds }

\* a run with a stored login or a token, at login: the session object is the
\* initial one taken through capture_stdin, load_config, handle_args,
\* load_creds, ask_creds and host_info
InitLogin ==
    /\ stdin \in Inputs
    /\ argv \in LoginArgvs
    /\ penv = BaseEnv
    /\ settingsFile = Put(default_settings, "email", "e1")
    /\ keychain = ("e1" :> "pw1")
    /\ \E m1 \in { [InitModel EXCEPT !.settings = Assign(@, settingsFile)] } :
       \E m2 \in { ArgsModel(ParsedArgs(Put(m1, "input", stdin), argv)) } :
       \E m3 \in { [m2 EXCEPT !.creds = LoadedCreds(m2)] } :
       \E m4 \in { IF CredsMode(m3) = "token"
                   THEN [m3 EXCEPT !.creds = Put(@, "token", m3.token)]
                   ELSE m3 } :
          model = [m4 EXCEPT !.client = HostClient(m4)]
    /\ pc = "login"
    /\ arg = "model"
    /\ sent = <<>>
    /\ stored = <<>>
    /\ prompted = <<>>
    /\ msgs = {}
    /\ spawned = <<>>
    /\ status = "running"
    /\ exitCode = 0
    /\ pending = EmptyObj
    /\ org_key = "unset"

NextLogin ==
    \/ login_fail
    \/ login_2fa
    \/ LoginOk(AnyBodies(model))
    \/ totp_fail
    \/ TotpOk(AnyBodies(model))

SpecLogin == InitLogin /\ [][NextLogin]_vars

-----------------------------------------------------------------------------
(* Vocabulary of the properties *)

Stages ==
    <<"capture_stdin", "load_config", "handle_args", "load_creds", "ask_creds",
      "host_info", "login", "totp", "decrypt_model", "ask_env", "import_env",
      "update_config", "specials", "execute">>

StageNo(stage) == CHOOSE i \in 1..Len(Stages) : Stages[i] = stage

\* the chain has left the given stage behind
Past(stage) == StageNo(pc) > StageNo(stage)

Requests(path) == { i \in 1..Len(sent) : sent[i].uri.path = path }

\* an interactive choice of environment was offered
ChoiceOffered ==
    \E i \in 1..Len(prompted) : prompted[i].q = "Choose the environment to load"

Asked(q) == \E i \in 1..Len(prompted) : prompted[i].q = q

TokenMode == Truthy(model, "token")

IdentityFields == {"version", "endpoint", "type", "uname_hash", "cmd_hash"}

-----------------------------------------------------------------------------
(* C1 *)

\* the two shapes of a login body: client, email and password hash, or
\* client and token hash
C1_LoginShape(b) ==
    /\ DOMAIN b \in { {"client", "email", "passwd_hash"}, {"client", "token_hash"} }
    /\ DOMAIN b["client"] = IdentityFields
    /\ Has(b, "passwd_hash") =>
          /\ DOMAIN b["passwd_hash"] = {"sha3"}
          /\ b["passwd_hash"].sha3 = model.creds.passwd
          /\ b["email"] = model.creds.email
    /\ Has(b, "token_hash") =>
          /\ DOMAIN b["token_hash"] = {"sha3"}
          /\ b["token_hash"].sha3 = model.creds.token

\* C1: every request body sent to the backend is free of the raw password
\* and the raw token: a login body is the client identity with either the
\* email and the hash of the password or the hash of the token; a
\* second-factor body is the user of the login response and the code; an
\* update body is an id, possibly a name, and a ciphertext.
C1_NoRawSecretSent ==
    /\ \A i \in Requests("/login") : C1_LoginShape(sent[i].body)
    /\ \A i \in Requests("/totp/login") :
          /\ DOMAIN sent[i].body = {"user", "code"}
          /\ sent[i].body.user = TwoFaBody["user"]
          /\ sent[i].body.code \in Codes
    /\ \A i \in Requests("/env/update") :
          /\ DOMAIN sent[i].body \subseteq {"vars_ct", "id", "name"}
          /\ sent[i].body.vars_ct.alg = "sjcl"
          /\ Has(sent[i].body, "id") =>
                sent[i].body.id \in Range(EnvIds) \cup {NewId}
          /\ Has(sent[i].body, "name") => sent[i].body.name = model.env_name

\* a password login with a second factor followed by an upload: all three
\* requests were sent
C1_Witness ==
    /\ Len(sent) = 3
    /\ Has(sent[1].body, "passwd_hash")
    /\ sent[2].uri.path = "/totp/login"
    /\ sent[3].uri.path = "/env/update"

-----------------------------------------------------------------------------
(* C2 *)

\* C2: in a token session whose organization has an environment, once the
\* selector has run the selection is the first environment of the
\* organization, whatever name was asked for, and no choice was offered.
C2_TokenDefault ==
    (TokenMode /\ Past("ask_env") /\ Len(model.org.envs) >= 1) =>
        /\ Has(model, "selected")
        /\ model.selected = model.org.envs[1].id
        /\ ~ChoiceOffered

\* a token session asked for the name of the second environment and still
\* reached the executor with the first one
C2_Witness ==
    /\ TokenMode
    /\ pc = "execute"
    /\ arg = "model"
    /\ Len(model.org.envs) = 2
    /\ Has(model, "env_name")
    /\ model.env_name = model.org.envs[2].name
    /\ model.selected = model.org.envs[1].id

-----------------------------------------------------------------------------
(* C3 *)

\* a password session asked for a name that no environment has, without import
C3_Case ==
    /\ ~TokenMode
    /\ Truthy(model, "env_name")
    /\ \A i \in 1..Len(model.org.envs) : model.org.envs[i].name # model.env_name
    /\ ~model.import

\* C3 as claimed: in that case the selector reports the miss, offers no
\* choice, selects nothing, and no command is executed.
C3_Original ==
    (Past("ask_env") /\ C3_Case) =>
        /\ "NotFound" \in msgs
        /\ ~ChoiceOffered
        /\ ~Has(model, "selected")
        /\ spawned = <<>>

\* C3 as amended: in that case the selector reports the miss and the lookup
\* by name selects nothing; the selector then offers the numbered choice of
\* every environment; an environment is selected, and a command executed,
\* only through a valid index given there, and with an invalid index
\* nothing is selected and nothing executed.
C3_NotFoundThenChoice ==
    (Past("ask_env") /\ C3_Case) =>
        /\ "NotFound" \in msgs
        /\ ChoiceOffered
        /\ prompted[Len(prompted)].options =
              [i \in 1..Len(model.org.envs) |-> model.org.envs[i].name]
        /\ arg = "model" =>
              /\ Has(model, "selected")
              /\ \E i \in 1..Len(model.org.envs) : model.org.envs[i].id = model.selected
        /\ arg # "model" =>
              /\ arg = "undefined"
              /\ ~Has(model, "selected")
              /\ "invalid index" \in msgs
              /\ spawned = <<>>

\* the name was not found, the choice was answered with a valid index, and
\* the command ran
C3_Witness ==
    /\ Past("ask_env")
    /\ C3_Case
    /\ "NotFound" \in msgs
    /\ spawned # <<>>

-----------------------------------------------------------------------------
(* C4 *)

\* a session object was built by handle_args (no --reset, no die)
C4_SessionBuilt == Past("handle_args") /\ arg = "model" /\ ~model.reset

\* the consequences the claim draws for a session under KEYS_TOKEN
C4_TokenSession ==
    /\ Truthy(model, "token")
    /\ model.token = penv[KEYS_TOKEN]
    /\ ~Asked("Email") /\ ~Asked("Password")
    /\ ~Has(model.creds, "email") /\ ~Has(model.creds, "passwd")
    /\ \A i \in Requests("/login") :
          /\ DOMAIN sent[i].body = {"client", "token_hash"}
          /\ sent[i].body.token_hash.sha3 = penv[KEYS_TOKEN]

\* C4 as claimed: whenever KEYS_TOKEN is set the session is a token session
\* with that token, whatever the command-line flags.
C4_Original ==
    (Truthy(penv, KEYS_TOKEN) /\ Past("handle_args") /\ arg = "model") => C4_TokenSession

\* C4 as amended: whenever KEYS_TOKEN is set and -t or --token is among the
\* options given before the command (and --reset is not), the session is a
\* token session with that token: no email or password prompt, no cached
\* credential loaded or used, and the login request carries the hash of
\* that token, whatever the other flags and the cached configuration.
C4_TokenOverride ==
    (/\ Truthy(penv, KEYS_TOKEN)
     /\ C4_SessionBuilt
     /\ \E i \in 1..Len(model.args) : model.args[i] \in {OptT, OptToken})
        => C4_TokenSession

\* KEYS_TOKEN is set, -t came with another token on the command line, a
\* credential is cached, and the login request went out
C4_Witness ==
    /\ Truthy(penv, KEYS_TOKEN)
    /\ Len(argv) >= 2 /\ argv[1] = OptT /\ argv[2] = TokArg
    /\ Has(model.settings, "email")
    /\ Requests("/login") # {}
    /\ model.token = penv[KEYS_TOKEN]

-----------------------------------------------------------------------------
(* C5 *)

\* the last request was a login or second-factor request and it failed
C5_FailedLogin ==
    /\ Len(sent) > 0
    /\ sent[Len(sent)].uri.path \in {"/login", "/totp/login"}
    /\ sent[Len(sent)].outcome # "accepted"

C5_Classes ==
    {"AuthFailed Invalid Token", "AuthFailed Bad Username/Password",
     "AuthFailed Invalid 2FA Code", "NetworkUnreachable"}

\* no stage after login has acted
C5_NothingLater ==
    /\ pc \in {"login", "totp"}
    /\ ~Has(model, "org") /\ ~Has(model, "user") /\ ~Has(model, "selected")
    /\ Requests("/env/update") = {}
    /\ ~ChoiceOffered
    /\ stored = <<>>
    /\ spawned = <<>>

\* the message by the endpoint that failed and the mode of the session
C5_ByEndpoint ==
    IF sent[Len(sent)].uri.path = "/totp/login" THEN "AuthFailed Invalid 2FA Code"
    ELSE IF TokenMode THEN "AuthFailed Invalid Token"
    ELSE "AuthFailed Bad Username/Password"

\* C5 as claimed: a failed login exits non-zero with the message of its
\* cause, a transport error being NetworkUnreachable and never AuthFailed,
\* and no later stage runs.
C5_Original ==
    C5_FailedLogin =>
        /\ status = "exited" /\ exitCode = 1
        /\ msgs \cap C5_Classes =
              {IF sent[Len(sent)].outcome = "network" THEN "NetworkUnreachable"
               ELSE C5_ByEndpoint}
        /\ C5_NothingLater

\* C5 as amended: a failed login exits non-zero with an AuthFailed message
\* chosen by the endpoint that failed and the mode of the session, the same
\* for a rejection and for a transport error: 'invalid token' or 'bad
\* username/password' for the login endpoint, 'invalid code' for the
\* second-factor endpoint; and no later stage runs.
C5_FailedLoginDies ==
    C5_FailedLogin =>
        /\ status = "exited" /\ exitCode = 1
        /\ msgs \cap C5_Classes = {C5_ByEndpoint}
        /\ C5_NothingLater

\* a transport error on the login request of a token session
C5_Witness ==
    /\ C5_FailedLogin
    /\ sent[Len(sent)].outcome = "network"
    /\ sent[Len(sent)].uri.path = "/login"
    /\ TokenMode
    /\ status = "exited"

-----------------------------------------------------------------------------
(* C6 *)

\* a decryption of Key Recovery has failed: sjcl threw, or cryptico left no
\* plaintext or garbage for the organization key or for another
\* organization's key
C6_DecryptionFailed ==
    /\ Has(model, "user")
    /\ \/ "sjcl decrypt: org_key_ct" \in msgs
       \/ "sjcl decrypt: vars_ct" \in msgs
       \/ /\ ~TokenMode
          /\ Has(model.user, "org_key")
          /\ model.user.org_key \in BadPlaintexts
       \/ /\ Has(model.user, "org_keys")
          /\ \E o \in DOMAIN model.user.org_keys : model.user.org_keys[o] \in BadPlaintexts

\* C6: whenever a decryption of Key Recovery has failed, no upload request
\* is sent and no command is spawned.
C6_Original ==
    C6_DecryptionFailed =>
        /\ Requests("/env/update") = {}
        /\ spawned = <<>>

-----------------------------------------------------------------------------
(* C7 *)

\* every login or second-factor request so far was accepted, and the second
\* factor, when asked for, was accepted too
C7_LoginAccepted ==
    /\ Requests("/login") # {}
    /\ \A i \in Requests("/login") \cup Requests("/totp/login") :
          sent[i].outcome = "accepted"
    /\ pending # EmptyObj => Requests("/totp/login") # {}

\* C7: secret storage is written only after an accepted login; a password
\* session writes its email and password, a token session writes nothing.
C7_Original ==
    /\ stored # <<>> => C7_LoginAccepted
    /\ (Has(model.creds, "passwd") /\ ~TokenMode) =>
          \A i \in 1..Len(stored) :
              stored[i] = [account |-> model.creds.email,
                           password |-> model.creds.passwd]
    /\ TokenMode => stored = <<>>

-----------------------------------------------------------------------------
(* C8 *)

\* the decrypted variable set of the selected environment
C8_Vars ==
    (CHOOSE i \in 1..Len(model.org.envs) : model.org.envs[i].id = model.selected)

C8_Defined(n) ==
    \E j \in 1..Len(model.org.envs[C8_Vars].vars) :
        model.org.envs[C8_Vars].vars[j].name = n

C8_Value(n) ==
    LET vs == model.org.envs[C8_Vars].vars
    IN vs[CHOOSE j \in 1..Len(vs) : vs[j].name = n].value

\* C8: the environment of a spawned command maps every name to the
\* decrypted value when the selected variable set defines the name, else to
\* the parent's value when clean mode is off, else to nothing; the command
\* goes through a shell exactly when clean mode is off.
C8_ChildEnvironment ==
    \A k \in 1..Len(spawned) :
        LET env == spawned[k].env
            names == DOMAIN env \cup DOMAIN penv
                     \cup {model.org.envs[C8_Vars].vars[j].name :
                              j \in 1..Len(model.org.envs[C8_Vars].vars)}
        IN /\ spawned[k].shell = ~model.clean
           /\ \A n \in names :
                 IF C8_Defined(n) THEN Has(env, n) /\ env[n] = C8_Value(n)
                 ELSE IF ~model.clean /\ Has(penv, n) THEN Has(env, n) /\ env[n] = penv[n]
                 ELSE ~Has(env, n)

\* a command spawned without clean mode whose variable A collides with the
\* parent's A: the child sees the decrypted value and keeps the parent's PATH
C8_Witness ==
    /\ spawned # <<>>
    /\ ~model.clean
    /\ C8_Defined(<<"A">>) /\ Has(penv, <<"A">>)
    /\ spawned[1].env[<<"A">>] = <<"1">>
    /\ spawned[1].env[<<"P","A","T","H">>] = penv[<<"P","A","T","H">>]

-----------------------------------------------------------------------------
(* C9 *)

\* the command as handle_args joined it, kept in the hash input of host_info
C9_Command == model.client.cmd_hash.sha3

\* the first whitespace-separated word of a text
C9_FirstWord(s) ==
    IF \E i \in 1..Len(s) : ~IsSpace(s[i])
    THEN LET a == CHOOSE i \in 1..Len(s) :
                      ~IsSpace(s[i]) /\ \A j \in 1..(i - 1) : IsSpace(s[j])
             b == CHOOSE k \in a..Len(s) :
                      /\ \A j \in a..k : ~IsSpace(s[j])
                      /\ (k = Len(s) \/ IsSpace(s[k + 1]))
         IN SubSeq(s, a, b)
    ELSE <<>>

\* the first run of letters, or of digits, of a text
C9_LeadingRun(s) ==
    IF \E i \in 1..Len(s) : WordClass(s[i]) # "break"
    THEN LET a == CHOOSE i \in 1..Len(s) :
                      WordClass(s[i]) # "break"
                      /\ \A j \in 1..(i - 1) : WordClass(s[j]) = "break"
             b == CHOOSE k \in a..Len(s) :
                      /\ \A j \in a..k : WordClass(s[j]) = WordClass(s[a])
                      /\ (k = Len(s) \/ WordClass(s[k + 1]) # WordClass(s[a]))
         IN SubSeq(s, a, b)
    ELSE <<>>

\* ' -e NAME' for every variable of the selected set, in its order
C9_Flags ==
    LET vs == model.org.envs[C8_Vars].vars
    IN Join([i \in 1..Len(vs) |-> <<" ", "-", "e", " ">> \o vs[i].name], <<>>)

\* C9 as claimed: the executed command line is the command followed by the
\* -e flags when its first whitespace-separated word is docker, and the
\* command unchanged otherwise.
C9_Original ==
    \A k \in 1..Len(spawned) :
        spawned[k].cmd = IF C9_FirstWord(C9_Command) = Docker
                         THEN C9_Command \o C9_Flags ELSE C9_Command

\* C9 as amended: the executed command line is the command followed by one
\* ' -e NAME' per variable of the selected set, each once, in the order of
\* the set, when the first word of the lower-cased command as _.words
\* splits it (its first run of letters: docker, Docker, docker-compose) is
\* docker, and the command unchanged otherwise.
C9_DockerFlags ==
    \A k \in 1..Len(spawned) :
        spawned[k].cmd = IF C9_LeadingRun(ToLower(C9_Command)) = Docker
                         THEN C9_Command \o C9_Flags ELSE C9_Command

\* docker run was spawned with the two variables of the first environment
C9_Witness ==
    /\ spawned # <<>>
    /\ C9_Command = Docker \o <<" ", "r", "u", "n">>
    /\ spawned[1].cmd = C9_Command \o <<" ","-","e"," ","A"," ","-","e"," ","B">>

-----------------------------------------------------------------------------
(* C10 *)

C10_Lines == Split(stdin, "\n")

\* a line that counts: not blank, exactly one '='
C10_Good(l) ==
    /\ \E i \in 1..Len(l) : l[i] \notin {" ", "\t", "\n", "\r"}
    /\ Cardinality({i \in 1..Len(l) : l[i] = "="}) = 1

C10_Key(l) == SubSeq(l, 1, (CHOOSE i \in 1..Len(l) : l[i] = "=") - 1)

C10_Raw(l) == SubSeq(l, (CHOOSE i \in 1..Len(l) : l[i] = "=") + 1, Len(l))

\* the text after '=' without one pair of equal quotes around it
C10_Value(l) ==
    LET r == C10_Raw(l)
    IN IF Len(r) >= 2 /\ r[1] \in {"'", "\""} /\ r[Len(r)] = r[1]
       THEN SubSeq(r, 2, Len(r) - 1)
       ELSE r

\* C10: the variable set the importer uploads has exactly one entry per key
\* of the lines that count, with the value of the last such line, unquoted,
\* and the user's id as author; blank lines and lines without exactly one
\* '=' add nothing and the upload is still made; nothing of the
\* environment's former variables is in the set.
C10_Original ==
    /\ Past("import_env") => Requests("/env/update") # {}
    /\ \A r \in Requests("/env/update") :
          LET V == sent[r].body.vars_ct.plain
              L == C10_Lines
          IN /\ \A j \in 1..Len(V) :
                   \E i \in 1..Len(L) :
                       /\ C10_Good(L[i])
                       /\ C10_Key(L[i]) = V[j].name
                       /\ \A k \in (i + 1)..Len(L) :
                              C10_Good(L[k]) => C10_Key(L[k]) # V[j].name
                       /\ V[j].value = C10_Value(L[i])
                       /\ V[j].by = model.user.id
             /\ \A i \in 1..Len(L) :
                   C10_Good(L[i]) =>
                       Cardinality({j \in 1..Len(V) : V[j].name = C10_Key(L[i])}) = 1

-----------------------------------------------------------------------------
(* C11 *)

\* the identifiers of the organization's environments
C11_Existing == { model.org.envs[i].id : i \in 1..Len(model.org.envs) }

\* the importer is creating an environment
C11_Creating == Has(model, "create_env") /\ model.create_env

\* C11: an update request of a creating importer carries exactly an id that
\* no environment of the organization has, the requested name and the
\* ciphertext; an update request of an updating importer carries exactly the
\* id of an environment of the organization and the ciphertext, and no name.
C11_UpdateShape ==
    \A r \in Requests("/env/update") :
        LET b == sent[r].body
        IN /\ Has(b, "vars_ct") /\ b.vars_ct.alg = "sjcl"
           /\ IF C11_Creating
              THEN /\ DOMAIN b = {"id", "name", "vars_ct"}
                   /\ b.id \notin C11_Existing
                   /\ b.name = model.env_name
              ELSE /\ DOMAIN b = {"id", "vars_ct"}
                   /\ b.id \in C11_Existing

\* an update request that creates the environment qa beside two others
C11_Witness ==
    /\ Requests("/env/update") # {}
    /\ C11_Creating
    /\ Len(model.org.envs) = 2
    /\ model.env_name = NameQa

-----------------------------------------------------------------------------
(* C12 *)

\* the success report of an update request: the action and the count
C12_Success(b) ==
    (IF Has(b, "name") THEN "Created" ELSE "Updated")
        \o " with " \o ToString(Len(b.vars_ct.plain)) \o " variables from stdin"

\* C12: an accepted upload is reported as a success with the count of the
\* variables, in every mode and with or without an environment name; a failed
\* upload is reported as an error and does not end the process; after either
\* no command is executed.
C12_Original ==
    \A r \in Requests("/env/update") :
        /\ sent[r].outcome = "accepted" =>
               /\ C12_Success(sent[r].body) \in msgs
               /\ "error" \notin msgs
        /\ sent[r].outcome # "accepted" =>
               /\ "error" \in msgs
               /\ status # "exited" /\ exitCode = 0
        /\ spawned = <<>>

-----------------------------------------------------------------------------
(* C13 *)

\* the selector has run on a password session that asked for a name which an
\* environment of the organization has
C13_Case ==
    /\ Past("ask_env")
    /\ ~TokenMode
    /\ Has(model, "env_name")
    /\ \E i \in 1..Len(model.org.envs) : model.org.envs[i].name = model.env_name

\* C13: a password session that asks for the name of an existing environment
\* gets that environment's id as its selection (b for a/prod, b/stage and the
\* name stage), is offered no interactive choice and is not marked as
\* creating an environment.
C13_SelectByName ==
    C13_Case =>
        /\ Has(model, "selected")
        /\ \E i \in 1..Len(model.org.envs) :
              /\ model.org.envs[i].name = model.env_name
              /\ model.org.envs[i].id = model.selected
        /\ ~ChoiceOffered
        /\ ~Has(model, "create_env")
        /\ (/\ Len(model.org.envs) = 2
            /\ model.org.envs[1].id = "a" /\ model.org.envs[1].name = NameProd
            /\ model.org.envs[2].id = "b" /\ model.org.envs[2].name = NameStage
            /\ model.env_name = NameStage) => model.selected = "b"

\* prod and stage, stage asked for, b selected
C13_Witness ==
    /\ C13_Case
    /\ Len(model.org.envs) = 2
    /\ model.env_name = NameStage
    /\ model.selected = "b"

-----------------------------------------------------------------------------
(* C14 *)

\* the selector has run on a password session that imports and asked for a
\* name which no environment of the organization has
C14_Case ==
    /\ Past("ask_env")
    /\ ~TokenMode
    /\ model.import
    /\ Has(model, "env_name")
    /\ \A i \in 1..Len(model.org.envs) : model.org.envs[i].name # model.env_name

\* what the selector prints when it finds nothing to go on with
C14_Reports ==
    {"NotFound", "invalid index",
     "Use -e name with -i to specify an environment to create/update"}

\* C14: a password session that imports under a name no environment has is
\* marked as creating an environment: the selector prints no report, asks
\* nothing, hands the session itself to the importer with no environment
\* selected, and the importer's request creates an environment of that name
\* under a new id.
C14_CreateOnMiss ==
    C14_Case =>
        /\ Has(model, "create_env") /\ model.create_env
        /\ msgs \cap C14_Reports = {}
        /\ ~ChoiceOffered
        /\ status # "exited"
        /\ pc = "import_env" => arg = "model" /\ ~Has(model, "selected")
        /\ Past("import_env") =>
              /\ Cardinality(Requests("/env/update")) = 1
              /\ \A r \in Requests("/env/update") :
                    /\ Has(sent[r].body, "name")
                    /\ sent[r].body.name = model.env_name
                    /\ \A i \in 1..Len(model.org.envs) :
                          model.org.envs[i].id # sent[r].body.id

\* prod and stage, qa asked for with -i, the create request sent
C14_Witness ==
    /\ C14_Case
    /\ Past("import_env")
    /\ Len(model.org.envs) = 2
    /\ model.env_name = NameQa
    /\ \E r \in Requests("/env/update") : sent[r].body.name = NameQa

-----------------------------------------------------------------------------
(* C15 *)

\* the selector has run on a password session without a name and without
\* import
C15_Case ==
    /\ Past("ask_env")
    /\ ~TokenMode
    /\ ~Has(model, "env_name")
    /\ ~model.import

\* the prompts that offered the choice of environment
C15_Prompts ==
    { p \in 1..Len(prompted) : prompted[p].q = "Choose the environment to load" }

\* C15: such a session is shown every environment of the organization once,
\* in the organization's order, numbered from 1; an answer k with
\* 1 <= k <= count selects the k-th of them; any other answer selects
\* nothing and is reported as an invalid index, after which no upload is
\* sent, no command is spawned and the process neither exits with a failure
\* nor raises.
C15_NumberedChoice ==
    C15_Case =>
        LET envs == model.org.envs
        IN /\ Cardinality(C15_Prompts) = 1
           /\ \A p \in C15_Prompts :
                 /\ prompted[p].options = [i \in 1..Len(envs) |-> envs[i].name]
                 /\ IF prompted[p].answer \in 1..Len(envs)
                    THEN /\ Has(model, "selected")
                         /\ model.selected = envs[prompted[p].answer].id
                         /\ "invalid index" \notin msgs
                    ELSE /\ ~Has(model, "selected")
                         /\ "invalid index" \in msgs
                         /\ arg # "model"
                         /\ Requests("/env/update") = {}
                         /\ spawned = <<>>
                         /\ status \notin {"exited", "caught"}
                         /\ exitCode = 0

\* two environments, the answer 3, the chain at its end
C15_Witness ==
    /\ C15_Case
    /\ Len(model.org.envs) = 2
    /\ \E p \in C15_Prompts : prompted[p].answer = 3
    /\ status = "done"

-----------------------------------------------------------------------------
(* C16 *)

\* the selector has run on a password session that imports without a name
C16_Case ==
    /\ Past("ask_env")
    /\ ~TokenMode
    /\ model.import
    /\ ~Truthy(model, "env_name")

\* C16: a password session that imports without an environment name is told
\* that a name is needed and the selector hands on null: nothing is selected
\* or marked, no choice is offered, no upload request is sent, no command is
\* spawned, and the process neither exits with a failure nor raises.
C16_MissingName ==
    C16_Case =>
        /\ "Use -e name with -i to specify an environment to create/update" \in msgs
        /\ arg = "null"
        /\ ~Has(model, "selected") /\ ~Has(model, "create_env")
        /\ ~ChoiceOffered
        /\ Requests("/env/update") = {}
        /\ spawned = <<>>
        /\ status \notin {"exited", "caught"}
        /\ exitCode = 0

\* keys -i with a command, two environments, the chain at its end
C16_Witness ==
    /\ C16_Case
    /\ Len(model.org.envs) = 2
    /\ model.cmd # <<>>
    /\ status = "done"

-----------------------------------------------------------------------------
(* C17 *)

\* the login response asked for the second factor
C17_Required == pending # EmptyObj

\* what a login response gives the session
C17_Received == Has(model, "user") \/ Has(model, "org") \/ Has(model, "org_key_ct")

\* C17: when the login response asks for the second factor, the code is
\* asked for and sent once, with the user of that response, to /totp/login
\* right after the login request; the session has no user, organization or
\* key material and key recovery has not begun unless /totp/login accepted;
\* and no field of the first response is in the session. Without such a
\* response no code is asked for and nothing is sent to /totp/login.
C17_SecondFactor ==
    LET T == Requests("/totp/login")
    IN /\ ~C17_Required => T = {} /\ ~Asked("2FA Code")
       /\ C17_Required =>
             /\ ~Has(model, "2fa")
             /\ Cardinality(T) <= 1
             /\ \A r \in T :
                   /\ r = 2 /\ sent[1].uri.path = "/login"
                   /\ sent[1].outcome = "accepted"
                   /\ Asked("2FA Code")
                   /\ \E code \in Codes :
                         sent[r].body = [user |-> pending["user"], code |-> code]
             /\ (C17_Received \/ Past("totp") \/ org_key # "unset") =>
                   \E r \in T : sent[r].outcome = "accepted"
             /\ Past("totp") => Has(model, "user") /\ Has(model, "org")

\* a password login that needed the second factor, at the selector
C17_Witness ==
    /\ C17_Required
    /\ pc = "ask_env"
    /\ ~TokenMode
    /\ Len(model.org.envs) = 2

-----------------------------------------------------------------------------
(* C18 *)

\* C18: in a token session whose key ciphertext was decrypted with the token,
\* no key pair is derived, every environment that was decrypted was
\* decrypted with the key recovered from that ciphertext, and every
\* environment whose ciphertext is good under the recovered key is decrypted.
C18_Original ==
    (TokenMode /\ org_key # "unset") =>
        LET envs == model.org.envs
        IN /\ ~Has(model.user, "org_keys")
           /\ org_key = OrgKeyCt(model).plain
           /\ \A i \in 1..Len(envs) :
                 Has(envs[i], "vars") => envs[i].vars_ct.key = org_key
           /\ (\A i \in 1..Len(envs) : EnvDecrypts(org_key, envs[i].vars_ct)) =>
                 /\ status # "caught"
                 /\ \A i \in 1..Len(envs) : Has(envs[i], "vars")

-----------------------------------------------------------------------------
(* C19 *)

\* C19: every request sent after the login request goes out with the cookie
\* jar of the login request.
C19_Original ==
    \A i \in 1..Len(sent) :
        /\ sent[1].jar
        /\ sent[i].jar = sent[1].jar

-----------------------------------------------------------------------------
(* C20 *)

\* a stage has handed on null or undefined
C20_Signalled == arg # "model"

\* C20: once a stage has handed on null or undefined, the later stages send
\* nothing, ask nothing and spawn nothing, and the chain neither raises nor
\* exits with a failure: after a reset nothing at all was sent or asked,
\* after the selector's signal no upload was sent, after an import nothing
\* was spawned.
C20_Original ==
    C20_Signalled =>
        /\ status \in {"running", "done"}
        /\ exitCode = 0
        /\ spawned = <<>>
        /\ model.reset => sent = <<>> /\ prompted = <<>>
        /\ ~model.import => Requests("/env/update") = {}

-----------------------------------------------------------------------------
(* C21 *)

\* a field of an object as a set: empty when the field is absent
C21_Opt(o, f) == IF Has(o, f) THEN {o[f]} ELSE {}

\* what of the session is not login's: the command line, the flags, the
\* requested name, the token and the credentials, the selection, the endpoint
C21_Frame(m) ==
    [cmd |-> m.cmd, clean |-> m.clean, import |-> m.import,
     env_name |-> C21_Opt(m, "env_name"), token |-> C21_Opt(m, "token"),
     creds |-> m.creds, selected |-> C21_Opt(m, "selected"),
     endpoint |-> m.client.endpoint]

\* C21: whatever body the backend answers the login or the second factor
\* with, a step of login leaves the command line, the clean and import
\* flags, the requested name, the token and the credentials, the selection
\* and the endpoint of the session as they were.
C21_Original ==
    [][(pc \in {"login", "totp"}) => (C21_Frame(model)' = C21_Frame(model))]_vars

====
